---------------------------- MODULE Spec2Model ----------------------------
(***************************************************************************)
(* Model of Firestore's embedded gRPC root certificate accessor,           *)
(*   remote/grpc_root_certificate_finder_generated.cc                      *)
(*                                                                         *)
(*   std::string LoadGrpcRootCertificate() {                               *)
(*     return {reinterpret_cast<const char*>(grpc_root_certificates),      *)
(*             grpc_root_certificates_size};                               *)
(*   }                                                                     *)
(*                                                                         *)
(* The process memory is a map from storage addresses to the bytes stored  *)
(* there.  One address holds the static array grpc_root_certificates; the  *)
(* others are the storage of std::string objects.  An invocation is the    *)
(* std::string(const char*, size_t) constructor: it obtains storage for    *)
(* the new string, copies the counted bytes one at a time and hands the    *)
(* string to its caller by value.  Callers run concurrently, may call      *)
(* again, and may modify the string they hold.                             *)
(***************************************************************************)
EXTENDS Integers, Sequences, FiniteSets

\* ------------------------------------------------------------------ bounds
\* Longest embedded array drawn from ByteValues.
MaxLen == 2
\* Number of concurrent callers.
NThreads == 2
\* Total number of invocations in a behaviour.
MaxCalls == 3
\* Total number of caller modifications of held strings in a behaviour.
MaxMods == 1
\* Most PEM blocks in an embedded bundle (SpecPem).
MaxBlocks == 1

Threads == 1..NThreads

\* ------------------------------------------------------------------ memory
\* The address of the static array grpc_root_certificates.
StaticAddr == 0
\* Addresses of string storage: room for a held and a new string per caller.
HeapAddrs == 1..(2 * NThreads)
Addrs == {StaticAddr} \cup HeapAddrs

\* Values of an unsigned char.
UChar == 0..255
\* The byte values the longer arrays are drawn from: NUL and the largest
\* value, negative as a signed char.
ByteValues == {0, 255}
\* The char value ('X') a caller writes into a string it holds.
ModValues == {88}

VARIABLES
  mem,                          \* address -> sequence of stored values
  grpc_root_certificates_size,  \* the length constant shipped with the array
  charSigned,                   \* whether plain char is signed in this build
  pc,                           \* caller -> "ready" | "copy"
  tmp,                          \* caller -> storage of the string being built
  held,                         \* caller -> storage of the string it holds
  idx,                          \* caller -> next index of the copy
  rd,                           \* caller -> indices of the array read so far
  outcome,                      \* caller -> outcome of its latest invocation
  ret,                          \* caller -> value its latest invocation returned
  conc,                         \* caller -> latest invocation overlapped another
  afterMod,                     \* caller -> latest invocation began after a
                                \*   caller had modified an earlier result
  returned,                     \* every value any invocation has returned
  calls,                        \* invocations started
  mods                          \* caller modifications made

vars == <<mem, grpc_root_certificates_size, charSigned, pc, tmp, held, idx,
          rd, outcome, ret, conc, afterMod, returned, calls, mods>>

\* The static array, as stored.
grpc_root_certificates == mem[StaticAddr]

\* ------------------------------------------------------- pure definitions
\* All sequences over S of length at most n.
SeqsUpTo(S, n) == UNION {[1..k -> S] : k \in 0..n}

\* reinterpret_cast<const char*>: the same object representation read as a
\* plain char, whose signedness the build decides.  (CharOf7Bit: a faulty
\* cast that loses the top bit.)
CharOf7Bit(b, signed) == b % 128
CharOf(b, signed) == IF signed /\ b >= 128 THEN b - 256 ELSE b

\* The 8-bit value of a char.
ToByte(c) == c % 256
ToBytes(s) == [k \in 1..Len(s) |-> ToByte(s[k])]

\* Index of the first NUL of s (0-based), or Len(s) when there is none.
RECURSIVE FirstNul(_, _)
FirstNul(s, k) ==
  IF k >= Len(s) THEN Len(s)
  ELSE IF s[k + 1] = 0 THEN k ELSE FirstNul(s, k + 1)

\* The number of chars std::string(const char* s, size_type n) copies: n.
\* (Faulty counts: up to the first NUL, as std::string(const char*) would;
\* one too many; one too few.)
CopyCountStrlen(s, n) == FirstNul(s, 0)
CopyCountOffByOne(s, n) == n + 1
CopyCountShort(s, n) == IF n > 0 THEN n - 1 ELSE 0
CopyCount(s, n) == n

\* Whether the constructor needs allocated storage for n chars.  A string of
\* no chars lives in the string object itself; the model's arrays of one to
\* MaxLen bytes stand for a bundle longer than any small-string buffer.
\* (NeedsHeapAlways: a faulty constructor allocating for the empty string.)
NeedsHeapAlways(n) == TRUE
NeedsHeap(n) == n > 0

\* The value read at index k (0-based) of the array: its byte, or, past the
\* end of the array, whatever lies there.
ArrayAt(k) ==
  IF k < Len(grpc_root_certificates)
    THEN {grpc_root_certificates[k + 1]}
    ELSE ByteValues

\* ------------------------------------------------------------ PEM bundles
BeginLine ==
  <<45, 45, 45, 45, 45, 66, 69, 71, 73, 78, 32, 67, 69, 82, 84, 73, 70, 73,
    67, 65, 84, 69, 45, 45, 45, 45, 45, 10>>
EndLine ==
  <<45, 45, 45, 45, 45, 69, 78, 68, 32, 67, 69, 82, 84, 73, 70, 73, 67, 65,
    84, 69, 45, 45, 45, 45, 45, 10>>
\* Base64 body lines ("TUlJ\n", "QUE9\n").
PemBodies == {<<84, 85, 108, 74, 10>>, <<81, 85, 69, 57, 10>>}
PemBlocks == {BeginLine \o b \o EndLine : b \in PemBodies}

\* Whether p is a prefix of s, and s without its first n elements.
IsPrefix(p, s) == Len(p) <= Len(s) /\ SubSeq(s, 1, Len(p)) = p
Drop(s, n) == SubSeq(s, n + 1, Len(s))

\* The base64 alphabet: A-Z, a-z, 0-9, '+', '/', and the padding '='.
Base64Chars == (65..90) \cup (97..122) \cup (48..57) \cup {43, 47, 61}

\* Position of the first newline (10) of s at or after k, or 0 when there is
\* none.
RECURSIVE LineEnd(_, _)
LineEnd(s, k) ==
  IF k > Len(s) THEN 0
  ELSE IF s[k] = 10 THEN k ELSE LineEnd(s, k + 1)

\* PEM text made only of certificate blocks: each a BEGIN line, one or more
\* lines of base64 characters and an END line, with nothing before, between
\* or after the blocks.  PemBody is at the start of a line inside a block,
\* after `lines` body lines.
RECURSIVE WellFormedPem(_), PemBody(_, _)
WellFormedPem(s) ==
  \/ s = <<>>
  \/ IsPrefix(BeginLine, s) /\ PemBody(Drop(s, Len(BeginLine)), 0)
PemBody(s, lines) ==
  IF IsPrefix(EndLine, s)
    THEN lines > 0 /\ WellFormedPem(Drop(s, Len(EndLine)))
    ELSE LET n == LineEnd(s, 1)
         IN /\ n > 1
            /\ \A k \in 1..(n - 1) : s[k] \in Base64Chars
            /\ PemBody(Drop(s, n), lines + 1)

RECURSIVE Concat(_)
Concat(ss) == IF ss = <<>> THEN <<>> ELSE Head(ss) \o Concat(Tail(ss))

\* Concatenations of at most MaxBlocks certificate blocks, no other framing.
PemBundles == {Concat(bs) : bs \in SeqsUpTo(PemBlocks, MaxBlocks)}

\* The arrays the concurrent callers are checked on: every short array over
\* ByteValues; and those together with every one-byte array.
ShortBundles == SeqsUpTo(ByteValues, MaxLen)
Bundles == ShortBundles \cup {<<b>> : b \in UChar}

\* ---------------------------------------------------------------- storage
StorageOf(S) == CHOOSE a \in S : TRUE
InUse == UNION {held[t] \cup tmp[t] : t \in Threads}

\* Storage the new string of caller t gets: storage no live string occupies.
\* The allocator serves each caller from an arena of its own, two addresses
\* wide, lowest free address first.  (Faulty storage: one buffer shared by
\* every string; the array's own storage.)
Arena(t) == {2 * t - 1, 2 * t}
SharedAddrs(t) == {1}
StaticAlias(t) == {StaticAddr}
FreshAddrs(t) ==
  {a \in Arena(t) \ InUse : \A b \in Arena(t) \ InUse : a <= b}

\* ------------------------------------------------------------------- Init
InitWith(D) ==
  /\ \E d \in D :
       /\ mem = [a \in Addrs |-> IF a = StaticAddr THEN d ELSE <<>>]
       /\ grpc_root_certificates_size = Len(d)
  /\ charSigned \in BOOLEAN
  /\ pc = [t \in Threads |-> "ready"]
  /\ tmp = [t \in Threads |-> {}]
  /\ held = [t \in Threads |-> {}]
  /\ idx = [t \in Threads |-> 0]
  /\ rd = [t \in Threads |-> {}]
  /\ outcome = [t \in Threads |-> "none"]
  /\ ret = [t \in Threads |-> <<>>]
  /\ conc = [t \in Threads |-> FALSE]
  /\ afterMod = [t \in Threads |-> FALSE]
  /\ returned = {}
  /\ calls = 0
  /\ mods = 0

Init == InitWith(ShortBundles)
InitBytes == InitWith(Bundles)
InitPem == InitWith(PemBundles)

\* ---------------------------------------------------------------- actions
\* A caller invokes LoadGrpcRootCertificate: the constructor obtains storage.
CallOk(t) ==
  /\ pc[t] = "ready"
  /\ calls < MaxCalls
  /\ \E a \in FreshAddrs(t) :
       /\ tmp' = [tmp EXCEPT ![t] = {a}]
       /\ mem' = [mem EXCEPT ![a] = <<>>]
  /\ LET others == {u \in Threads \ {t} : pc[u] = "copy"}
     IN conc' = [u \in Threads |->
                   IF u = t THEN others # {}
                   ELSE IF u \in others THEN TRUE ELSE conc[u]]
  /\ afterMod' = [afterMod EXCEPT ![t] = mods > 0]
  /\ pc' = [pc EXCEPT ![t] = "copy"]
  /\ idx' = [idx EXCEPT ![t] = 0]
  /\ rd' = [rd EXCEPT ![t] = {}]
  /\ outcome' = [outcome EXCEPT ![t] = "running"]
  /\ calls' = calls + 1
  /\ UNCHANGED <<grpc_root_certificates_size, charSigned, held, ret,
                 returned, mods>>

\* The invocation ends in the allocator's failure: nothing is returned and
\* the caller keeps what it held.
CallBadAlloc(t) ==
  /\ pc[t] = "ready"
  /\ calls < MaxCalls
  /\ NeedsHeap(grpc_root_certificates_size)
  /\ outcome' = [outcome EXCEPT ![t] = "bad_alloc"]
  /\ calls' = calls + 1
  /\ UNCHANGED <<mem, grpc_root_certificates_size, charSigned, pc, tmp, held,
                 idx, rd, ret, conc, afterMod, returned, mods>>

\* One char of the copy: read the array at idx, store it in the new string.
CopyByte(t) ==
  /\ pc[t] = "copy"
  /\ idx[t] < CopyCount(grpc_root_certificates, grpc_root_certificates_size)
  /\ \E b \in ArrayAt(idx[t]) :
       mem' = [mem EXCEPT ![StorageOf(tmp[t])] =
                 Append(@, CharOf(b, charSigned))]
  /\ rd' = [rd EXCEPT ![t] = @ \cup {idx[t]}]
  /\ idx' = [idx EXCEPT ![t] = @ + 1]
  /\ UNCHANGED <<grpc_root_certificates_size, charSigned, pc, tmp, held,
                 outcome, ret, conc, afterMod, returned, calls, mods>>

\* The copy is complete: the string is returned by value and replaces the
\* string the caller held, whose storage is released.
Return(t) ==
  /\ pc[t] = "copy"
  /\ idx[t] >= CopyCount(grpc_root_certificates, grpc_root_certificates_size)
  /\ LET a == StorageOf(tmp[t])
         v == mem[a]
     IN /\ ret' = [ret EXCEPT ![t] = v]
        /\ returned' = returned \cup {v}
        /\ held' = [held EXCEPT ![t] = {a}]
        /\ mem' = [x \in Addrs |->
                     IF x \in held[t] \ {a} THEN <<>> ELSE mem[x]]
  /\ tmp' = [tmp EXCEPT ![t] = {}]
  /\ pc' = [pc EXCEPT ![t] = "ready"]
  /\ outcome' = [outcome EXCEPT ![t] = "returned"]
  /\ UNCHANGED <<grpc_root_certificates_size, charSigned, idx, rd, conc,
                 afterMod, calls, mods>>

\* The position of a string of n chars a caller overwrites: the last.
ModPositions(n) == IF n = 0 THEN {} ELSE {n}

\* A caller modifies the string it holds: overwrites a char or appends one.
Modify(t) ==
  /\ pc[t] = "ready"
  /\ held[t] # {}
  /\ mods < MaxMods
  /\ LET a == StorageOf(held[t])
     IN \E v \in ModValues :
          \/ \E k \in ModPositions(Len(mem[a])) :
               mem' = [mem EXCEPT ![a][k] = v]
          \/ mem' = [mem EXCEPT ![a] = Append(@, v)]
  /\ mods' = mods + 1
  /\ UNCHANGED <<grpc_root_certificates_size, charSigned, pc, tmp, held, idx,
                 rd, outcome, ret, conc, afterMod, returned, calls>>

Next ==
  \E t \in Threads :
    \/ CallOk(t)
    \/ CallBadAlloc(t)
    \/ CopyByte(t)
    \/ Return(t)
    \/ Modify(t)

\* One caller, calling repeatedly: for the PEM bundles, tens of bytes long,
\* and for the arrays of every byte value.
SingleCaller == {1}
NextSingle ==
  \E t \in SingleCaller :
    \/ CallOk(t)
    \/ CallBadAlloc(t)
    \/ CopyByte(t)
    \/ Return(t)
    \/ Modify(t)

Spec == Init /\ [][Next]_vars
SpecBytes == InitBytes /\ [][NextSingle]_vars
SpecPem == InitPem /\ [][NextSingle]_vars

\* ------------------------------------------------------------- properties
\* The value of the string caller t holds.
HeldValue(t) == mem[StorageOf(held[t])]

\* C1: every value an invocation returns has exactly
\* grpc_root_certificates_size chars, the number of bytes of the array.
C1_LengthIsBundleLength ==
  /\ grpc_root_certificates_size = Len(grpc_root_certificates)
  /\ \A v \in returned : Len(v) = grpc_root_certificates_size

\* C1 witness: invocations have returned for an array of MaxLen bytes that
\* starts with a NUL.
C1_Witness ==
  /\ grpc_root_certificates_size >= MaxLen
  /\ grpc_root_certificates[1] = 0
  /\ returned # {}
  /\ \E t \in Threads : outcome[t] = "returned"

\* C2: the returned value is the array verbatim: the same number of bytes,
\* and at every index the same 8-bit value.
C2_Verbatim ==
  \A v \in returned :
    /\ DOMAIN v = DOMAIN grpc_root_certificates
    /\ \A k \in DOMAIN v : ToByte(v[k]) = grpc_root_certificates[k]

\* C2 witness: a build with signed char has returned an array of MaxLen
\* bytes that ends in a byte above 127.
C2_Witness ==
  /\ charSigned
  /\ Len(grpc_root_certificates) >= MaxLen
  /\ grpc_root_certificates[Len(grpc_root_certificates)] >= 128
  /\ \E t \in Threads : outcome[t] = "returned" /\ ret[t] \in returned

\* C3: any two invocations, at any points of a behaviour, return identical
\* content.
C3_SameContentEveryCall ==
  \A v \in returned : \A w \in returned : v = w

\* C3 witness: a caller holds an earlier result it has modified, and an
\* invocation that began after that modification has returned.
C3_Witness ==
  \E t \in Threads : \E u \in Threads :
    /\ held[t] # {}
    /\ HeldValue(t) # ret[t]
    /\ outcome[u] = "returned"
    /\ afterMod[u]
    /\ ret[u] # <<>>

\* C4: a caller modifying the string it holds changes neither the array, nor
\* the string any other caller holds, nor a string under construction (the
\* result of a later return).
C4_IndependentCopy ==
  [][\A t \in Threads :
       Modify(t) =>
         /\ grpc_root_certificates' = grpc_root_certificates
         /\ \A u \in Threads \ {t} :
              \A a \in held[u] \cup tmp[u] : mem'[a] = mem[a]]_vars

\* C4 witness: two callers hold results; one has modified its own, the
\* other's is still the array's content.
C4_Witness ==
  \E t \in Threads : \E u \in Threads \ {t} :
    /\ held[t] # {} /\ held[u] # {}
    /\ HeldValue(t) # ret[t]
    /\ HeldValue(u) = ret[u]
    /\ ToBytes(HeldValue(u)) = grpc_root_certificates
    /\ grpc_root_certificates # <<>>

\* C5: callers whose invocations overlapped in time all obtain the content
\* of the array, hence identical content.
C5_ConcurrentCallersAgree ==
  \A t \in Threads : \A u \in Threads :
    (outcome[t] = "returned" /\ conc[t] /\ outcome[u] = "returned" /\ conc[u])
      => /\ ToBytes(ret[t]) = grpc_root_certificates
         /\ ret[t] = ret[u]

\* C5 witness: two callers' invocations overlapped and both have returned an
\* array of MaxLen bytes.
C5_Witness ==
  \E t \in Threads : \E u \in Threads \ {t} :
    /\ outcome[t] = "returned" /\ conc[t]
    /\ outcome[u] = "returned" /\ conc[u]
    /\ Len(ret[t]) >= MaxLen

\* C6: with an array of length 0 an invocation never fails and returns the
\* empty sequence; it reads nothing and is never stuck.
C6_EmptyBundle ==
  grpc_root_certificates_size = 0 =>
    \A t \in Threads :
      /\ outcome[t] # "bad_alloc"
      /\ rd[t] = {}
      /\ outcome[t] = "returned" => ret[t] = <<>>
      /\ pc[t] = "copy" => ENABLED Return(t)

\* C6 witness: with an array of length 0, a caller has been returned the
\* empty sequence by a second invocation.
C6_Witness ==
  /\ grpc_root_certificates_size = 0
  /\ calls >= 2
  /\ \E t \in Threads : outcome[t] = "returned" /\ ret[t] = <<>>

\* C7: no step changes the array or the length constant, and a step of one
\* caller's invocation changes nothing another caller holds or is building.
C7_BundleImmutable ==
  [][/\ grpc_root_certificates' = grpc_root_certificates
     /\ grpc_root_certificates_size' = grpc_root_certificates_size
     /\ \A t \in Threads :
          (CallOk(t) \/ CallBadAlloc(t) \/ CopyByte(t) \/ Return(t)) =>
            \A u \in Threads \ {t} :
              /\ held'[u] = held[u]
              /\ tmp'[u] = tmp[u]
              /\ ret'[u] = ret[u]
              /\ \A a \in held[u] \cup tmp[u] : mem'[a] = mem[a]]_vars

\* C7 witness: every invocation of the behaviour has been made on a non-empty
\* array, one caller holds a result and another is in the middle of a copy.
C7_Witness ==
  /\ calls = MaxCalls
  /\ grpc_root_certificates # <<>>
  /\ \E t \in Threads : \E u \in Threads \ {t} :
       /\ outcome[t] = "returned" /\ held[t] # {}
       /\ pc[u] = "copy" /\ idx[u] > 0

\* C8 as stated: no invocation ever ends in an error outcome.
C8_NoErrorOutcome ==
  \A t \in Threads : outcome[t] # "bad_alloc"

\* C8 amended: the accessor validates nothing and is never stuck: a call is
\* accepted whatever the array holds, a copy in progress can always take its
\* next step, and the only error outcome is the failure to allocate storage
\* for the copy, which needs a non-empty array.
C8_OnlyAllocationFails ==
  \A t \in Threads :
    /\ outcome[t] \in {"none", "running", "returned", "bad_alloc"}
    /\ outcome[t] = "bad_alloc" => grpc_root_certificates_size > 0
    /\ (pc[t] = "ready" /\ calls < MaxCalls) => ENABLED CallOk(t)
    /\ pc[t] = "copy" => ENABLED (CopyByte(t) \/ Return(t))
    /\ pc[t] = "copy" <=> outcome[t] = "running"

\* C8 witness: one invocation has ended in an allocation failure and another
\* has returned, for an array that is not PEM text.
C8_Witness ==
  /\ \E t \in Threads : outcome[t] = "bad_alloc"
  /\ \E u \in Threads : outcome[u] = "returned"
  /\ grpc_root_certificates[1] = 0

C10_CountDrivenCopy ==
  \A t \in Threads :
    /\ rd[t] \subseteq 0..(grpc_root_certificates_size - 1)
    /\ rd[t] = 0..(idx[t] - 1)
    /\ outcome[t] = "returned" =>
         /\ rd[t] = 0..(grpc_root_certificates_size - 1)
         /\ \A k \in 1..Len(grpc_root_certificates) :
              /\ k <= Len(ret[t])
              /\ ToByte(ret[t][k]) = grpc_root_certificates[k]
              /\ grpc_root_certificates[k] = 0 => ret[t][k] = 0

\* C10 witness: a build with signed char has returned to the caller, for the
\* second time, the copy of an array of MaxLen bytes with a NUL first and the
\* byte 255 last.
C10_Witness ==
  \E t \in SingleCaller :
    /\ outcome[t] = "returned"
    /\ charSigned
    /\ Len(grpc_root_certificates) >= MaxLen
    /\ grpc_root_certificates[1] = 0
    /\ grpc_root_certificates[Len(grpc_root_certificates)] = 255
    /\ ret[t][Len(ret[t])] = 0 - 1
    /\ calls >= 2

=============================================================================
